---- MODULE Spec2Model ----
(***************************************************************************)
(* Model of src/main.py: the report run of async_main, which resolves a    *)
(* Riot user (RiotUser.create), lists the match ids (get_match_ids),       *)
(* fetches every match under a semaphore of 10 (get_match_data,            *)
(* fetch_with_sem, _fetch_single_match) and projects the documents into    *)
(* rows (_parse_match_data).                                               *)
(*                                                                         *)
(* A Python dict is a TLA+ record/function; dict.get(k, d) is Get; a       *)
(* subscript d[k] on a missing key is a KeyError.  asyncio is cooperative: *)
(* the code between two awaits is one atomic step, so one action spans     *)
(* from one suspension point (a client.get) to the next.                   *)
(***************************************************************************)
EXTENDS Integers, Sequences, FiniteSets, TLC

\* ------------------------------------------------------------------ bounds
\* Every duplicate-free list of at most MaxShort ids over ShortIds is a
\* possible answer of the lister, and so is the list <<1, ..., MaxLong>>,
\* which has more entries than the semaphore admits at once.
MaxShort == 3
MaxLong == 11
\* at most MaxFailures of the match fetches of one run fail
MaxFailures == 2
\* the requests of the first MaxHung entries of match_ids may never be
\* answered
MaxHung == 2
\* kills, deaths and assists of the projected participant range over
\* 0 .. MaxStat (below 40 deaths every tie of the quotient is an exact float)
MaxStat == 8

\* asyncio.Semaphore(10)
SemCap == 10

\* user.get_match_ids(client, start=0, count=10)
ListCount == 10

\* ------------------------------------------------------ Python values
None == [none |-> TRUE]
EmptyDict == << >>
NoError == [kind |-> "none", where |-> "none"]

Get(d, key, default) == IF key \in DOMAIN d THEN d[key] ELSE default

\* truth value of a fetched result: None and the empty dict are false
Truthy(m) == m # None /\ DOMAIN m # {}

\* round(n / d, 2) in hundredths.  n / d is rounded to the nearest
\* hundredth; an exact tie (only when d has a factor 8, where the float is
\* exact) goes to the even hundredth, as Python's round does.
Round2(n, d) ==
    LET q == (100 * n) \div d
        r == (100 * n) % d
    IN  IF 2 * r < d THEN q
        ELSE IF 2 * r > d THEN q + 1
        ELSE IF q % 2 = 0 THEN q ELSE q + 1

\* ------------------------------------------------------ the upstream
\* the run of async_main: RiotUser.create(client, "Bawlstranglers", "2014", "europe")
Name == "Bawlstranglers"
Tag == "2014"
Region == "europe"
\* the puuid the identity endpoint answers for that handle
TargetPuuid == "P1"

Participant(puuid, champion, win, kills, deaths, assists, damage, lane) ==
    [puuid |-> puuid, championName |-> champion, win |-> win, kills |-> kills,
     deaths |-> deaths, assists |-> assists,
     totalDamageDealtToChampions |-> damage, lane |-> lane]

Other1 == Participant("P8", "Garen", FALSE, 1, 7, 2, 9000, "TOP")
                @@ [challenges |-> [goldPerMinute |-> 280]]
Other2 == Participant("P9", "Jinx", TRUE, 9, 1, 4, 30000, "BOTTOM")
                @@ [challenges |-> [goldPerMinute |-> 450]]

\* the target's participant record, in the shapes the upstream gives it
PlayerFull == Participant(TargetPuuid, "Ahri", TRUE, 4, 2, 6, 21000, "MIDDLE")
                @@ [challenges |-> [goldPerMinute |-> 390, kda |-> 5]]
PlayerNoGold == Participant(TargetPuuid, "Lux", FALSE, 5, 0, 3, 15000, "MIDDLE")
                @@ [challenges |-> [kda |-> 8]]
PlayerNoBag == Participant(TargetPuuid, "Zed", TRUE, 2, 3, 5, 12000, "JUNGLE")

Document(mid, participants) ==
    [metadata |-> [matchId |-> mid], info |-> [participants |-> participants]]

\* The document the match endpoint answers for match id mid: id 0 is an old
\* match whose participants carry no challenges bag; ids 100 and 101 have
\* malformed bodies, one without the metadata block and one without the
\* info block; the others cycle through: target present with goldPerMinute,
\* target absent, target present with a challenges bag that has no
\* goldPerMinute.
MatchDoc(mid) ==
    IF mid = 0 THEN Document(mid, <<Other1, PlayerNoBag>>)
    ELSE IF mid = 100 THEN [info |-> [participants |-> <<PlayerFull, Other2>>]]
    ELSE IF mid = 101 THEN [metadata |-> [matchId |-> mid]]
    ELSE IF mid % 3 = 1 THEN Document(mid, <<Other1, PlayerFull, Other2>>)
    ELSE IF mid % 3 = 2 THEN Document(mid, <<Other1, Other2>>)
    ELSE Document(mid, <<PlayerNoGold, Other2>>)

ShortIds == (0 .. 3) \cup {100, 101}

IsInjective(s) == \A i, j \in 1 .. Len(s) : i # j => s[i] # s[j]

\* the answers of the match-id endpoint (response.json() of get_match_ids)
ListAnswers ==
    { s \in UNION { [1 .. n -> ShortIds] : n \in 0 .. MaxShort } : IsInjective(s) }
    \cup { [i \in 1 .. MaxLong |-> i] }

\* the answers to the listing of a given puuid: the long list is the
\* account's; under another puuid only the short lists are answered
ListAnswersFor(puuid) ==
    IF puuid = TargetPuuid THEN ListAnswers
    ELSE { s \in ListAnswers : Len(s) <= MaxShort }

\* what can go wrong with one GET: raise_for_status on a 4xx/5xx, a
\* timeout, a transport error
HttpError == "HTTPStatusError"
FailureKinds == {HttpError, "TimeoutException", "ConnectError"}

\* how an awaited client.get ended: kind "ok" is a 2xx with its decoded
\* body, any other kind is the exception the GET or raise_for_status raised
Answer(kind, body) == [kind |-> kind, body |-> body]
NoAnswer == Answer("none", None)

\* the 2xx bodies of the identity endpoint: the account with its puuid, or
\* a malformed answer: the puuid empty, or no puuid at all
IdentityBodies ==
    { [puuid |-> TargetPuuid, gameName |-> Name, tagLine |-> Tag],
      [puuid |-> "", gameName |-> Name, tagLine |-> Tag],
      [gameName |-> Name, tagLine |-> Tag] }

\* ------------------------------------------------------ the state
VARIABLES
    pc,             \* where async_main is suspended or has ended
    user,           \* the RiotUser of async_main, None before/without one
    error,          \* the exception that left async_main, NoError if none
    create_response, \* how the GET of create ended, NoAnswer before
    list_response,  \* how the GET of get_match_ids ended, NoAnswer before
    reqUser,        \* GETs sent to the identity endpoint
    reqList,        \* GETs sent to the match-id endpoint
    reqMatch,       \* reqMatch[i]: GETs sent for entry i of match_ids
    match_ids,      \* the list get_match_ids returned
    task,           \* task[i]: state of the gathered task fetch_with_sem(match_ids[i])
    sem,            \* the value of the semaphore: units available
    match_results,  \* match_results[i]: what task i returned (None until then)
    valid_results,  \* the filtered list handed to _parse_match_data
    k,              \* position of the for loop of _parse_match_data
    rows,           \* the rows list of _parse_match_data
    printed         \* the tables print(df.to_string()) has shown, in order

vars == <<pc, user, error, create_response, list_response, reqUser, reqList,
          reqMatch, match_ids, task, sem, match_results, valid_results, k,
          rows, printed>>

fetchVars == <<match_ids, task, sem, match_results, reqMatch>>
parseVars == <<valid_results, k, rows>>

Entries == 1 .. Len(match_ids)

Init ==
    /\ pc = "start"
    /\ user = None
    /\ error = NoError
    /\ create_response = NoAnswer
    /\ list_response = NoAnswer
    /\ reqUser = 0
    /\ reqList = 0
    /\ reqMatch = << >>
    /\ match_ids = << >>
    /\ task = << >>
    /\ sem = SemCap
    /\ match_results = << >>
    /\ valid_results = << >>
    /\ k = 0
    /\ rows = << >>
    /\ printed = << >>

\* an exception leaves async_main (asyncio.run re-raises it)
Raise(kind, where) ==
    /\ pc' = "raised"
    /\ error' = [kind |-> kind, where |-> where]

\* ------------------------------------------------------ RiotUser.create
\* variant: the listing is sent together with the identity lookup
CreateRequestWithList ==
    /\ pc = "start"
    /\ pc' = "create_wait"
    /\ reqUser' = reqUser + 1
    /\ reqList' = reqList + 1
    /\ UNCHANGED <<user, error, create_response, list_response, fetchVars,
                   parseVars, printed>>

\* async_main calls RiotUser.create, which sends the GET and awaits it
CreateRequest ==
    /\ pc = "start"
    /\ pc' = "create_wait"
    /\ reqUser' = reqUser + 1
    /\ UNCHANGED <<user, error, create_response, list_response, reqList,
                   fetchVars, parseVars, printed>>

\* 2xx with a body that has the puuid: cls(name, tag, region, data["puuid"])
CreateOk ==
    /\ pc = "create_wait"
    /\ \E body \in IdentityBodies :
        /\ "puuid" \in DOMAIN body
        /\ create_response' = Answer("ok", body)
        /\ user' = [name |-> Name, tag |-> Tag, region |-> Region,
                    puuid |-> body["puuid"]]
    /\ pc' = "have_user"
    /\ UNCHANGED <<error, list_response, reqUser, reqList, fetchVars, parseVars,
                   printed>>

\* variant: create tries the lookup again after an error status
CreateHttpErrorRetry ==
    /\ pc = "create_wait"
    /\ create_response' = Answer(HttpError, None)
    /\ user' = None
    /\ pc' = "start"
    /\ UNCHANGED <<error, list_response, reqUser, reqList, fetchVars, parseVars,
                   printed>>

\* 4xx/5xx: raise_for_status raises HTTPStatusError, create prints and
\* returns None, and async_main returns at "if not user"
CreateHttpError ==
    /\ pc = "create_wait"
    /\ create_response' = Answer(HttpError, None)
    /\ user' = None
    /\ pc' = "returned"
    /\ UNCHANGED <<error, list_response, reqUser, reqList, fetchVars, parseVars,
                   printed>>

\* what create does not catch: a timeout or transport error of the GET, or
\* the KeyError of data["puuid"] on a 2xx body without the field
CreateRaises ==
    /\ pc = "create_wait"
    /\ \E a \in { Answer(kind, None) : kind \in FailureKinds \ {HttpError} }
                \cup { Answer("ok", body) :
                         body \in { b \in IdentityBodies : "puuid" \notin DOMAIN b } } :
        /\ create_response' = a
        /\ Raise(IF a.kind = "ok" THEN "KeyError" ELSE a.kind, "create")
    /\ UNCHANGED <<user, list_response, reqUser, reqList, fetchVars, parseVars,
                   printed>>

\* ------------------------------------------------------ get_match_ids
\* async_main calls get_match_ids, which sends the GET and awaits it
ListRequest ==
    /\ pc = "have_user"
    /\ pc' = "list_wait"
    /\ reqList' = reqList + 1
    /\ UNCHANGED <<user, error, create_response, list_response, reqUser,
                   fetchVars, parseVars, printed>>

\* variant: the ids are returned sorted
ListOkSorted ==
    /\ pc = "list_wait"
    /\ \E ids \in ListAnswersFor(user.puuid) :
        /\ list_response' = Answer("ok", ids)
        /\ match_ids' = SortSeq(ids, LAMBDA a, b : a < b)
    /\ pc' = "have_ids"
    /\ UNCHANGED <<user, error, create_response, reqUser, reqList, reqMatch, task,
                   sem, match_results, parseVars, printed>>

\* 2xx: return response.json()
ListOk ==
    /\ pc = "list_wait"
    /\ \E ids \in ListAnswersFor(user.puuid) :
        /\ list_response' = Answer("ok", ids)
        /\ match_ids' = ids
    /\ pc' = "have_ids"
    /\ UNCHANGED <<user, error, create_response, reqUser, reqList, reqMatch, task,
                   sem, match_results, parseVars, printed>>

\* variant: get_match_ids catches the error and returns an empty list
ListRaisesSwallowed ==
    /\ pc = "list_wait"
    /\ \E kind \in FailureKinds : list_response' = Answer(kind, None)
    /\ match_ids' = << >>
    /\ pc' = "have_ids"
    /\ UNCHANGED <<user, error, create_response, reqUser, reqList, reqMatch, task,
                   sem, match_results, parseVars, printed>>

\* 4xx/5xx (raise_for_status), timeout or transport error: nothing catches
\* it, neither get_match_ids nor async_main
ListRaises ==
    /\ pc = "list_wait"
    /\ \E kind \in FailureKinds :
        /\ list_response' = Answer(kind, None)
        /\ Raise(kind, "get_match_ids")
    /\ UNCHANGED <<user, create_response, reqUser, reqList, fetchVars, parseVars,
                   printed>>

\* ------------------------------------------------------ get_match_data
\* async_main calls get_match_data: sem = asyncio.Semaphore(10), one task
\* per entry of match_ids, then await asyncio.gather(*tasks).  No task has
\* run yet: each is "waiting" to enter "async with sem".
StartFetch ==
    /\ pc = "have_ids"
    /\ pc' = "gather"
    /\ sem' = SemCap
    /\ task' = [i \in Entries |-> "waiting"]
    /\ match_results' = [i \in Entries |-> None]
    /\ reqMatch' = [i \in Entries |-> 0]
    /\ UNCHANGED <<user, error, create_response, list_response, reqUser, reqList,
                   match_ids, parseVars, printed>>

\* variant: no admission limit
CanAcquireAlways(s) == TRUE

\* Semaphore.acquire proceeds only while the value is positive
CanAcquire(s) == s > 0

\* gather starts the tasks in list order and the semaphore wakes its
\* waiters first-in first-out: the next task to enter is the first waiting
NextWaiting(i) ==
    /\ task[i] = "waiting"
    /\ \A j \in Entries : j < i => task[j] # "waiting"

\* task i enters "async with sem" (the value goes down by one) and, with no
\* suspension in between, _fetch_single_match sends its GET
Admit(i) ==
    /\ pc = "gather"
    /\ NextWaiting(i)
    /\ CanAcquire(sem)
    /\ sem' = sem - 1
    /\ task' = [task EXCEPT ![i] = "inflight"]
    /\ reqMatch' = [reqMatch EXCEPT ![i] = @ + 1]
    /\ UNCHANGED <<pc, user, error, create_response, list_response, reqUser,
                   reqList, match_ids, match_results, parseVars, printed>>

\* what _fetch_single_match returns: resp.json() on a 2xx, None when
\* "except Exception" caught raise_for_status, a timeout or a transport error
FetchResult(outcome, mid) == IF outcome = "ok" THEN MatchDoc(mid) ELSE None

\* variant: a failed fetch is tried again
TaskAfterFetchRetry(outcome) == IF outcome = "ok" THEN "done" ELSE "waiting"

\* the task after _fetch_single_match returned: it is finished either way
TaskAfterFetch(outcome) == "done"

\* variant: leaving "async with sem" gives nothing back
SemAfterExitNever(s, outcome) == s

\* variant: the unit is released on the success path only
SemAfterExitOkOnly(s, outcome) == IF outcome = "ok" THEN s + 1 ELSE s

\* leaving "async with sem" releases the unit, whatever was returned
SemAfterExit(s, outcome) == s + 1

\* the fetches that have failed so far
Failed == { i \in DOMAIN task : task[i] = "done" /\ match_results[i] = None }

\* what "except Exception" of _fetch_single_match catches: the failures of
\* the GET and of raise_for_status, and resp.json() on a 2xx body that is
\* no JSON
FetchFailureKinds == FailureKinds \cup {"JSONDecodeError"}

\* the ways the GET of a task can end now
Outcomes ==
    {"ok"} \cup (IF Cardinality(Failed) < MaxFailures THEN FetchFailureKinds ELSE {})

\* the GET of task i is answered or fails; the task returns and releases
Respond(i) ==
    /\ pc = "gather"
    /\ task[i] = "inflight"
    /\ \E outcome \in Outcomes :
        /\ match_results' = [match_results EXCEPT ![i] = FetchResult(outcome, match_ids[i])]
        /\ task' = [task EXCEPT ![i] = TaskAfterFetch(outcome)]
        /\ sem' = SemAfterExit(sem, outcome)
    /\ UNCHANGED <<pc, user, error, create_response, list_response, reqUser,
                   reqList, match_ids, reqMatch, parseVars, printed>>

\* variant: the wait ends with the first finished task
GatherCompleteFirst == \E i \in Entries : task[i] = "done"

\* gather returns when every task has finished
GatherComplete == \A i \in Entries : task[i] = "done"

RECURSIVE FilterValidReversed(_)
\* variant: the valid results are collected last first
FilterValidReversed(results) ==
    IF results = << >> THEN << >>
    ELSE IF Truthy(Head(results))
         THEN FilterValidReversed(Tail(results)) \o <<Head(results)>>
    ELSE FilterValidReversed(Tail(results))

RECURSIVE FilterValid(_)
\* [m for m in match_results if m]
FilterValid(results) ==
    IF results = << >> THEN << >>
    ELSE IF Truthy(Head(results)) THEN <<Head(results)>> \o FilterValid(Tail(results))
    ELSE FilterValid(Tail(results))

\* gather returns the results in task order; the failed ones are filtered
\* out and _parse_match_data starts with rows = []
GatherReturn ==
    /\ pc = "gather"
    /\ GatherComplete
    /\ valid_results' = FilterValid(match_results)
    /\ k' = 1
    /\ rows' = << >>
    /\ pc' = "parse"
    /\ UNCHANGED <<user, error, create_response, list_response, reqUser, reqList,
                   fetchVars, printed>>

\* ------------------------------------------------------ _parse_match_data
\* variant: the first participant is taken without comparing the puuid
FindPlayerFirst(participants, puuid) ==
    IF participants = << >> THEN None ELSE participants[1]

\* next((p for p in participants if p["puuid"] == self.puuid), None)
FindPlayer(participants, puuid) ==
    LET hits == { i \in 1 .. Len(participants) : participants[i].puuid = puuid }
    IN  IF hits = {} THEN None
        ELSE participants[CHOOSE i \in hits : \A j \in hits : i <= j]

PlayerOf(data, puuid) ==
    FindPlayer(Get(Get(data, "info", EmptyDict), "participants", << >>), puuid)

\* player["challenges"].get("goldPerMinute", 0)
GoldPerMin(player) == Get(player["challenges"], "goldPerMinute", 0)

\* the subscripts of the row literal that have no default
RowKeyError(data, player) ==
    \/ "metadata" \notin DOMAIN data
    \/ "challenges" \notin DOMAIN player

\* variant: the divisor is kept from 0 by adding one death
DeathsForKdaPlusOne(player) == player.deaths + 1

\* deaths = player["deaths"] if player["deaths"] > 0 else 1
DeathsForKda(player) == IF player.deaths > 0 THEN player.deaths ELSE 1

\* the row appended for the player; kda is in hundredths
RowOf(data, player) ==
    [match_id |-> data.metadata.matchId,
     champion |-> player.championName,
     win |-> player.win,
     kills |-> player.kills,
     deaths |-> player.deaths,
     assists |-> player.assists,
     kda |-> Round2(player.kills + player.assists, DeathsForKda(player)),
     gold_per_min |-> GoldPerMin(player),
     damage |-> player.totalDamageDealtToChampions,
     lane |-> player.lane]

\* variant: the loop consumes its input list (match_results.pop(0))
ParseStepPop ==
    /\ pc = "parse"
    /\ k <= Len(valid_results)
    /\ LET data == Head(valid_results)
           player == PlayerOf(data, user.puuid)
       IN  IF ~Truthy(player)
           THEN /\ rows' = rows
                /\ UNCHANGED <<pc, error>>
           ELSE IF RowKeyError(data, player)
           THEN /\ Raise("KeyError", "get_match_data")
                /\ UNCHANGED rows
           ELSE /\ rows' = Append(rows, RowOf(data, player))
                /\ UNCHANGED <<pc, error>>
    /\ valid_results' = Tail(valid_results)
    /\ UNCHANGED <<user, create_response, list_response, reqUser, reqList, fetchVars,
                   k, printed>>

\* one iteration of "for data in match_results"
ParseStep ==
    /\ pc = "parse"
    /\ k <= Len(valid_results)
    /\ LET data == valid_results[k]
           player == PlayerOf(data, user.puuid)
       IN  IF ~Truthy(player)
           THEN /\ rows' = rows
                /\ k' = k + 1
                /\ UNCHANGED <<pc, error>>
           ELSE IF RowKeyError(data, player)
           THEN /\ Raise("KeyError", "get_match_data")
                /\ UNCHANGED <<rows, k>>
           ELSE /\ rows' = Append(rows, RowOf(data, player))
                /\ k' = k + 1
                /\ UNCHANGED <<pc, error>>
    /\ UNCHANGED <<user, create_response, list_response, reqUser, reqList, fetchVars,
                   valid_results, printed>>

\* the loop is over: _parse_match_data and get_match_data return rows and
\* async_main prints the table
PrintTable ==
    /\ pc = "parse"
    /\ k > Len(valid_results)
    /\ printed' = Append(printed, rows)
    /\ pc' = "done"
    /\ UNCHANGED <<user, error, create_response, list_response, reqUser, reqList,
                   fetchVars, parseVars>>

\* ------------------------------------------------------ specification
Next ==
    \/ CreateRequest
    \/ CreateOk
    \/ CreateHttpError
    \/ CreateRaises
    \/ ListRequest
    \/ ListOk
    \/ ListRaises
    \/ StartFetch
    \/ \E i \in Entries : Admit(i)
    \/ \E i \in Entries : Respond(i)
    \/ GatherReturn
    \/ ParseStep
    \/ PrintTable

Spec == Init /\ [][Next]_vars

\* ------------------------------------------------------ scheduling
\* The event loop runs every task that can run: async_main goes on when its
\* await has its result, and a task that the semaphore admits enters.
LoopFairness ==
    /\ WF_vars(StartFetch)
    /\ WF_vars(\E i \in Entries : Admit(i))
    /\ WF_vars(GatherReturn)
    /\ WF_vars(ParseStep)
    /\ WF_vars(PrintTable)

\* every request that is sent is answered, with a response or an error: a
\* request stays in flight until its Respond step, so this is fairness of
\* the step of any of them
FairSpec == Spec /\ LoopFairness /\ WF_vars(\E i \in DOMAIN task : Respond(i))

\* the entries whose requests may hang for ever
HungSet == 1 .. MaxHung

\* every request is answered except, possibly, those of the entries of
\* HungSet
HungSpec ==
    Spec /\ LoopFairness /\ WF_vars(\E i \in DOMAIN task \ HungSet : Respond(i))

\* ------------------------------------------------------ the projection alone
\* _parse_match_data called on one fetched document whose target participant
\* has any kills, deaths and assists in 0 .. MaxStat: the state of the run
\* when gather has returned that document
StatDoc(kills, deaths, assists) ==
    Document(1, <<Other1,
                  Participant(TargetPuuid, "Ahri", TRUE, kills, deaths, assists,
                              21000, "MIDDLE")
                    @@ [challenges |-> [goldPerMinute |-> 390]]>>)

InitKda ==
    \E kills, deaths, assists \in 0 .. MaxStat :
        /\ pc = "parse"
        /\ user = [name |-> Name, tag |-> Tag, region |-> Region,
                   puuid |-> TargetPuuid]
        /\ error = NoError
        /\ create_response =
                Answer("ok", [puuid |-> TargetPuuid, gameName |-> Name, tagLine |-> Tag])
        /\ list_response = Answer("ok", <<1>>)
        /\ reqUser = 1
        /\ reqList = 1
        /\ reqMatch = <<1>>
        /\ match_ids = <<1>>
        /\ task = <<"done">>
        /\ sem = SemCap
        /\ match_results = <<StatDoc(kills, deaths, assists)>>
        /\ valid_results = <<StatDoc(kills, deaths, assists)>>
        /\ k = 1
        /\ rows = << >>
        /\ printed = << >>

NextKda ==
    \/ ParseStep
    \/ PrintTable

SpecKda == InitKda /\ [][NextKda]_vars

TypeOK ==
    /\ pc \in {"start", "create_wait", "have_user", "returned", "list_wait",
               "have_ids", "gather", "parse", "done", "raised"}
    /\ sem \in 0 .. SemCap
    /\ k \in 0 .. (MaxLong + 1)

\* ------------------------------------------------------ properties
\* entries whose GET has been sent and is neither answered nor failed
Outstanding == { i \in DOMAIN reqMatch : reqMatch[i] > 0 /\ task[i] # "done" }

\* tasks inside "async with sem"
Holders == { i \in DOMAIN task : task[i] = "inflight" }

MatchRequested == \E i \in DOMAIN reqMatch : reqMatch[i] > 0

\* get_match_data is past its gather: it is projecting, has returned or has
\* raised
PastGather ==
    \/ pc \in {"parse", "done"}
    \/ pc = "raised" /\ error.where = "get_match_data"

\* the participants listed in a document, none when it has no info block
ParticipantsOf(doc) ==
    IF "info" \in DOMAIN doc /\ "participants" \in DOMAIN doc["info"]
    THEN doc["info"]["participants"] ELSE << >>

\* the match id a document carries, -1 when it has no metadata block
IdOf(doc) == IF "metadata" \in DOMAIN doc THEN doc["metadata"].matchId ELSE 0 - 1

\* some participant of the document has the user's puuid
HasTarget(doc) ==
    \E n \in 1 .. Len(ParticipantsOf(doc)) :
        ParticipantsOf(doc)[n].puuid = user.puuid

TargetOf(doc) ==
    LET ps == ParticipantsOf(doc)
    IN  ps[CHOOSE n \in 1 .. Len(ps) : ps[n].puuid = user.puuid]

GoldAbsent(p) ==
    \/ "challenges" \notin DOMAIN p
    \/ "goldPerMinute" \notin DOMAIN p["challenges"]

RowsFor(rs, mid) == { n \in 1 .. Len(rs) : rs[n].match_id = mid }

\* C1: at every moment of get_match_data at most 10 match-detail requests
\* are sent and not yet answered (with a response or an error).
C1_InFlightAtMostCap == Cardinality(Outstanding) <= SemCap

\* the cap is reached while a further task waits for admission
C1_Witness ==
    /\ Cardinality(Outstanding) = SemCap
    /\ \E i \in DOMAIN task : task[i] = "waiting"

\* C2: whatever subset of the fetches fails, get_match_data does not raise,
\* every fetch still completes, and the table has exactly one row for each
\* match that was fetched and contains the target player, none for a failed
\* one.
C2_IsolatedFailures ==
    LET expected == { i \in Entries : match_results[i] # None
                                        /\ HasTarget(match_results[i]) }
    IN  /\ ~(pc = "raised" /\ error.where = "get_match_data")
        /\ pc = "done" =>
            /\ \A i \in Entries : task[i] = "done"
            /\ Len(printed) = 1
            /\ Len(printed[1]) = Cardinality(expected)
            /\ Len(printed[1]) <= Len(match_ids)
            /\ \A i \in Entries :
                Cardinality(RowsFor(printed[1], match_ids[i])) =
                    IF i \in expected THEN 1 ELSE 0

\* C3: the projection starts, and get_match_data returns or raises, only
\* when every task is finished; no row exists while a fetch waits or is in
\* flight.
C3_Barrier ==
    (PastGather \/ rows # << >> \/ valid_results # << >> \/ printed # << >>)
        => /\ DOMAIN task = Entries
           /\ \A i \in Entries : task[i] = "done"

\* rows are being produced for a list longer than the semaphore admits
C3_Witness ==
    /\ pc = "parse"
    /\ Len(rows) > 0
    /\ Len(match_ids) > SemCap

C4_Units ==
    /\ sem \in 0 .. SemCap
    /\ sem + Cardinality(Holders) = SemCap
    /\ PastGather => sem = SemCap

C4_Steps ==
    \A i \in DOMAIN reqMatch \cap DOMAIN reqMatch' :
        /\ reqMatch'[i] > reqMatch[i] =>
                /\ sem > 0
                /\ sem' = sem - 1
                /\ task'[i] = "inflight"
        /\ (task[i] = "inflight" /\ task'[i] # "inflight") => sem' = sem + 1

\* C4: available units + units held = 10 with 0 <= available <= 10; a
\* request is sent only in the step that takes a unit, the unit is given
\* back when the task leaves (response or caught error), and all 10 are
\* available once get_match_data is past its gather.
C4_GateAccounting == [] C4_Units /\ [][C4_Steps]_vars

\* a list longer than the gate was fetched with a failure, and all units
\* are back
C4_Witness ==
    /\ pc = "parse"
    /\ Len(match_ids) > SemCap
    /\ Failed # {}
    /\ sem = SemCap

\* C5: the listing is requested only after the identity lookup answered
\* with a user, a match is requested only after the listing returned its
\* list, and the projection runs only after all fetches.
C5_StrictPipeline ==
    /\ reqList > 0 => (create_response.kind = "ok" /\ user # None)
    /\ MatchRequested =>
            (list_response.kind = "ok" /\ match_ids = list_response.body)
    /\ pc = "parse" => \A i \in Entries : task[i] = "done"

\* the whole pipeline ran and printed rows
C5_Witness ==
    /\ pc = "done"
    /\ Len(printed) = 1
    /\ Len(printed[1]) > 1

\* C6: after an error status of the identity lookup there has been exactly
\* one lookup request, no user, no exception, and the run has ended: no
\* listing, no match request, no table.
C6_ResolveErrorStops ==
    create_response.kind = HttpError =>
        /\ pc = "returned"
        /\ user = None
        /\ error = NoError
        /\ reqUser = 1
        /\ reqList = 0
        /\ list_response = NoAnswer
        /\ ~MatchRequested
        /\ rows = << >>
        /\ printed = << >>

C6_Witness == create_response.kind = HttpError /\ pc = "returned"

\* C7: after an error status of the listing the run has ended with that
\* error raised out of get_match_ids: no match request, no row, no table.
C7_ListErrorAborts ==
    list_response.kind = HttpError =>
        /\ pc = "raised"
        /\ error = [kind |-> HttpError, where |-> "get_match_ids"]
        /\ reqList = 1
        /\ match_ids = << >>
        /\ ~MatchRequested
        /\ rows = << >>
        /\ printed = << >>

C7_Witness == list_response.kind = HttpError /\ pc = "raised"

C8_State ==
    \A i \in DOMAIN reqMatch :
        /\ reqMatch[i] <= 1
        /\ i \in Failed =>
                /\ RowsFor(rows, match_ids[i]) = {}
                /\ \A t \in 1 .. Len(printed) :
                        RowsFor(printed[t], match_ids[i]) = {}

C8_Steps ==
    \A i \in Failed : i \in Failed' /\ reqMatch'[i] = reqMatch[i]

\* C8: every entry of match_ids is requested at most once, and an entry
\* whose request failed stays failed, is not requested again and has no row.
C8_NoRetry == [] C8_State /\ [][C8_Steps]_vars

\* a run with a failed fetch printed the rows of the others
C8_Witness ==
    /\ pc = "done"
    /\ Failed # {}
    /\ Len(printed[1]) > 0

C9_State ==
    PastGather =>
        \A n \in 1 .. Len(rows) :
            \E j \in 1 .. Len(valid_results) :
                /\ j < k
                /\ IdOf(valid_results[j]) = rows[n].match_id
                /\ HasTarget(valid_results[j])
                /\ rows[n].champion = TargetOf(valid_results[j]).championName

C9_Steps ==
    (pc = "parse" /\ k <= Len(valid_results) /\ ~HasTarget(valid_results[k]))
        => /\ rows' = rows
           /\ k' = k + 1
           /\ pc' = "parse"
           /\ error' = NoError

\* C9: every row comes from a document that has a participant with the
\* target puuid, and is that participant's; the loop step on a document
\* without such a participant adds no row, raises nothing and goes on to
\* the next document.
C9_SkipsForeignDocs == [] C9_State /\ [][C9_Steps]_vars

\* a document without the target was skipped and another one gave a row
C9_Witness ==
    /\ pc = "done"
    /\ \E j \in 1 .. Len(valid_results) : ~HasTarget(valid_results[j])
    /\ Len(printed[1]) > 0

\* C10: a document whose target participant has no goldPerMinute, because
\* the field or the whole challenges bag is missing, still gives its row,
\* with gold_per_min = 0, and the projection does not raise on it.
C10_GoldDefaultZero ==
    PastGather =>
        \A j \in 1 .. Len(valid_results) :
            ( /\ j < k \/ (pc = "raised" /\ j = k)
              /\ HasTarget(valid_results[j])
              /\ GoldAbsent(TargetOf(valid_results[j])) )
            => \E n \in RowsFor(rows, IdOf(valid_results[j])) :
                    rows[n].gold_per_min = 0

\* the rows made so far and the rows printed
AllRows == { rows[n] : n \in 1 .. Len(rows) }
            \cup UNION { { printed[t][n] : n \in 1 .. Len(printed[t]) } :
                         t \in 1 .. Len(printed) }

\* the fetched document a row was made from
SourceOf(row) ==
    CHOOSE doc \in { valid_results[j] : j \in 1 .. Len(valid_results) } :
        doc.metadata.matchId = row.match_id

Abs(x) == IF x < 0 THEN 0 - x ELSE x

\* C11: the kda of a row (in hundredths) is the hundredth nearest to
\* (kills + assists) / max(deaths, 1): the divisor is at least 1, 0 deaths
\* give kills + assists (5/0/3 gives 8.00), 4/2/6 gives 5.00, and the row
\* keeps the participant's own deaths.
C11_KdaFlooredDeaths ==
    \A row \in AllRows :
        LET p == TargetOf(SourceOf(row))
            divisor == IF p.deaths > 1 THEN p.deaths ELSE 1
            sum == p.kills + p.assists
        IN  /\ divisor >= 1
            /\ 2 * Abs(100 * sum - row.kda * divisor) <= divisor
            /\ p.deaths = 0 => row.kda = 100 * sum
            /\ (p.kills = 5 /\ p.deaths = 0 /\ p.assists = 3) => row.kda = 800
            /\ (p.kills = 4 /\ p.deaths = 2 /\ p.assists = 6) => row.kda = 500
            /\ row.deaths = p.deaths
            /\ row.kills = p.kills
            /\ row.assists = p.assists

\* a row for 5 kills, 0 deaths and 3 assists was printed with kda 8.00
C11_Witness ==
    /\ pc = "done"
    /\ \E row \in AllRows :
        /\ row.kills = 5 /\ row.deaths = 0 /\ row.assists = 3
        /\ row.kda = 800

\* C12: a user exists only for a 2xx answer whose body has a non-empty
\* puuid, which is the user's puuid; a 2xx answer without the field or with
\* an empty one ends the run with an error raised from create: no user, no
\* listing.
C12_PuuidFromBody ==
    /\ user # None =>
            /\ create_response.kind = "ok"
            /\ "puuid" \in DOMAIN create_response.body
            /\ user.puuid = create_response.body["puuid"]
            /\ user.puuid # ""
    /\ ( /\ create_response.kind = "ok"
         /\ \/ "puuid" \notin DOMAIN create_response.body
            \/ create_response.body["puuid"] = "" )
        => /\ pc = "raised"
           /\ error.where = "create"
           /\ user = None
           /\ reqList = 0

RECURSIVE ProjectAll(_, _)
\* the rows of a list of documents as a function of the documents and the
\* puuid alone
ProjectAll(docs, puuid) ==
    IF docs = << >> THEN << >>
    ELSE LET player == PlayerOf(Head(docs), puuid)
         IN  (IF Truthy(player) THEN <<RowOf(Head(docs), player)>> ELSE << >>)
                \o ProjectAll(Tail(docs), puuid)

C13_State ==
    PastGather => rows = ProjectAll(SubSeq(valid_results, 1, k - 1), user.puuid)

C13_Steps ==
    pc = "parse" =>
        UNCHANGED <<user, valid_results, match_results, match_ids,
                    reqUser, reqList, reqMatch>>

\* C13: while _parse_match_data runs no request is sent and the documents
\* and the user stay as they were, and the rows made so far are a function
\* of the documents read so far and the puuid alone.
C13_ProjectionPure == [] C13_State /\ [][C13_Steps]_vars

\* a list of several documents was projected and is still what gather gave
C13_Witness ==
    /\ pc = "done"
    /\ Len(valid_results) >= 2
    /\ Len(printed[1]) >= 1
    /\ valid_results = FilterValid(match_results)

\* C14 as claimed: whatever the 2xx answer of the listing, get_match_ids
\* returns at most count ids, in the order of the answer.
C14_AtMostCount ==
    list_response.kind = "ok" =>
        /\ Len(match_ids) <= ListCount
        /\ match_ids = list_response.body

\* C14: get_match_ids returns the list of the 2xx answer as it is, same
\* ids in the same order; it has at most count ids when the answer has.
C14_ReturnsUpstreamList ==
    list_response.kind = "ok" =>
        /\ match_ids = list_response.body
        /\ Len(list_response.body) <= ListCount => Len(match_ids) <= ListCount

\* a list that is not in ascending order was returned
C14_Witness ==
    /\ pc = "have_ids"
    /\ list_response.kind = "ok"
    /\ Len(match_ids) >= 2
    /\ match_ids[1] > match_ids[2]

\* a 2xx body that decoded to a document without the metadata block or
\* without the info block with its participants
Malformed(doc) ==
    \/ "metadata" \notin DOMAIN doc
    \/ "info" \notin DOMAIN doc
    \/ "participants" \notin DOMAIN doc["info"]

\* C15: a match with a malformed 2xx body is left out as that match only:
\* get_match_data does not raise on its document, no row is made from it,
\* and the rows of the well-formed documents before and after it are made.
C15_MalformedBodyIsolated ==
    PastGather =>
        /\ ~( /\ pc = "raised"
              /\ error.where = "get_match_data"
              /\ Malformed(valid_results[k]) )
        /\ \A j \in 1 .. Len(valid_results) :
            Malformed(valid_results[j]) =>
                /\ RowsFor(rows, match_ids[CHOOSE i \in Entries :
                                    match_results[i] = valid_results[j]]) = {}
                /\ pc = "done" =>
                    Len(rows) = Cardinality({ i \in 1 .. Len(valid_results) :
                                    /\ ~Malformed(valid_results[i])
                                    /\ HasTarget(valid_results[i]) })

\* the position of a match id in match_ids
PositionOf(mid) == CHOOSE i \in Entries : match_ids[i] = mid

\* rs lists its matches in the order match_ids has them
InListOrder(rs) ==
    \A n, m \in 1 .. Len(rs) :
        n < m => PositionOf(rs[n].match_id) < PositionOf(rs[m].match_id)

\* C18: in whatever order the fetches completed, the rows are in the
\* order of their match ids in match_ids.
C18_RowsInListOrder ==
    /\ \A n \in 1 .. Len(rows) : \E i \in Entries : match_ids[i] = rows[n].match_id
    /\ InListOrder(rows)
    /\ \A t \in 1 .. Len(printed) : InListOrder(printed[t])

\* a table was printed whose rows follow a list that is not in id order
C18_Witness ==
    /\ pc = "done"
    /\ Len(printed[1]) >= 2
    /\ printed[1][1].match_id > printed[1][2].match_id

\* every entry has been admitted, requested and answered
AllFetched ==
    \A i \in DOMAIN task : reqMatch[i] >= 1 /\ task[i] = "done"

\* C16: when every request is answered, every entry of match_ids, also of a
\* list longer than the gate, is eventually admitted and requested, and
\* get_match_data eventually returns.
C16_NoStarvation ==
    (pc = "gather") ~> (pc = "done" /\ AllFetched)

\* the requests that are sent and not answered among those that may hang
Hung == Holders \cap HungSet

\* no request is outstanding but those that hang, one for each entry of
\* HungSet, and they hold fewer units than the gate has
HungOnly ==
    /\ pc = "gather"
    /\ Hung = HungSet
    /\ Cardinality(Hung) < SemCap
    /\ \A i \in DOMAIN task \ HungSet : task[i] = "done"

\* C17: requests that never answer block only their own slots. The other
\* fetches are admitted beside them, at most SemCap less the hung ones at a
\* time, and are all eventually requested and finished; get_match_data stays
\* in its gather, without a result or an error, as long as a request hangs.
C17_HungBlocksOwnSlot ==
    /\ [](Cardinality(Holders \ HungSet) <= SemCap - Cardinality(Hung))
    /\ [](Hung # {} => pc = "gather" /\ error = NoError /\ printed = << >>)
    /\ (pc = "gather")
           ~> (\A i \in DOMAIN task \ HungSet : reqMatch[i] >= 1 /\ task[i] = "done")

\* a list longer than the gate where every fetch but the hung ones is over
C17_Witness ==
    /\ HungOnly
    /\ Len(match_ids) > SemCap

====
